---------------------------- MODULE Spec2Model ----------------------------
(***************************************************************************)
(* State-machine model of the coupon clipper's store automation engine:    *)
(*   - the session cache   (src/app/services/session_manager.py)           *)
(*   - the login flows     (src/app/services/coupon_service.py,            *)
(*                          src/app/services/store_discovery.py)           *)
(*   - the clip run        (src/app/services/coupon_service.py)            *)
(* Time is counted in whole days.  The cache directory is modelled as the  *)
(* set of user directories, the session file of every (user, store) key    *)
(* and its ".bak" backup file.                                             *)
(***************************************************************************)
EXTENDS Integers, Sequences, FiniteSets, TLC

VARIABLES
    now,        \* datetime.utcnow(), in days
    dirs,       \* users whose session directory exists
    files,      \* (user, store) -> content of store_<id>_session.json
    baks,       \* (user, store) -> content of store_<id>_session.json.bak
    last,       \* the last cache operation performed and what it returned
    pc,         \* position of the engine call in progress ("idle": none)
    run,        \* the engine call in progress: operation, user_id, store id
    session_loaded, \* clip_coupons: session_loaded
    wait_tries, \* _wait_for_elements: retry_count
    retry_count,    \* _handle_login_flow: retry_count of the verification loop
    current_url,    \* _handle_login_flow: what the last verification attempt read in page.url
    events,     \* the kinds of interaction performed so far in this call
    act,        \* the interaction performed by the last step of the call; for a
                \* call of _wait_and_click what the click did and what it returned
    more_clicks,    \* load-more clicks that loaded a page so far in this call
    requery_failed, \* offers whose verification query returned nothing or raised
    site,       \* the retailer's coupon listing: pages of offers, current page
    page_result,    \* _clip_coupons: page_result (offers and load-more button)
    idx,        \* _clip_coupons: position of the for loop in coupons
    clipped_coupons,    \* _clip_coupons: clipped_coupons
    misses,     \* load-more clicks that raised in this run, up to MaxMisses
    result      \* what the engine call returned

cacheVars == <<now, dirs, files, baks, last>>

runVars == <<pc, run, session_loaded, wait_tries, retry_count, current_url, events, act,
             more_clicks, requery_failed, site, page_result, idx, clipped_coupons,
             misses, result>>

vars == <<now, dirs, files, baks, last, pc, run, session_loaded, wait_tries,
          retry_count, current_url, events, act, more_clicks, requery_failed, site, page_result,
          idx, clipped_coupons, misses, result>>

----------------------------------------------------------------------------
(* Bounds of the model *)

\* number of clock advances explored
MaxTicks == 2
\* days the clock advances in one step
TickDays == 7

Users == {1}
StoreIds == {1, 2}
\* the stores the engine calls are started for
RunStores == {1}

BaseUrls == {"https://www.kroger.com"}
\* the salt of str hashes, drawn by the interpreter when a process starts
HashSeeds == {0, 1}

\* the primary key of the stores row of a base URL
StoreRowId(b) == 1
\* hash(str(base_url)) in a process with the salt seed: an integer that is
\* no primary key of the stores table
hash(b, seed) == 3 + seed

\* the StoreConfig analyze_store builds, which discover_store passes on to
\* verify_login: its id is unset (0) until the row is committed
DiscoveredConfig(b) == [id |-> 0, base_url |-> b]
\* the StoreConfig the clip endpoints build from the stores row
StoredConfig(b) == [id |-> StoreRowId(b), base_url |-> b]
\* the configurations of the engine calls of RunStores
RunConfigs == {[id |-> s, base_url |-> b] : s \in RunStores, b \in BaseUrls}

\* store_id = store_config.id or hash(str(store_config.base_url))
StoreIdentity(cfg, seed) == IF cfg.id # 0 THEN cfg.id ELSE hash(cfg.base_url, seed)

\* the numbers session files are named by
FileIds == StoreIds \cup {hash(b, seed) : b \in BaseUrls, seed \in HashSeeds}
Keys == Users \X FileIds

\* session states handed to save_session / rotate_session
SessionStates == { [cookies |-> "c1"], [cookies |-> "c2"] }

\* thresholds handed to cleanup_expired_sessions
MaxAgeChoices == {1, 7}

----------------------------------------------------------------------------
(* Program constants *)

\* timedelta(days=7) in load_session
SESSION_TTL_DAYS == 7
\* the default '2000-01-01T00:00:00' of a missing created_at, in days
\* relative to day 0 of the model
DEFAULT_CREATED_AT == -9000

----------------------------------------------------------------------------
(* Files *)

NoFile == [kind |-> "none"]
\* a file json.load cannot parse (truncated by a failed json.dump)
Corrupt == [kind |-> "corrupt"]
\* a parseable file: its JSON document and the time it was written
JsonFile(doc, t) == [kind |-> "json", doc |-> doc, written |-> t]

None == [kind |-> "none"]
PyBool(b) == [kind |-> "bool", b |-> b]
PyDict(d) == [kind |-> "dict", doc |-> d]
PyInt(n) == [kind |-> "int", n |-> n]

\* session_data['_metadata'] = {...}
WithMetadata(d, u, s, t) ==
    [k \in (DOMAIN d) \cup {"_metadata"} |->
        IF k = "_metadata"
        THEN [created_at |-> t, user_id |-> u, store_id |-> s]
        ELSE d[k]]

\* the document without its metadata block
StateOf(d) == [k \in (DOMAIN d) \ {"_metadata"} |-> d[k]]

\* metadata = session_data.get('_metadata', {});
\* created_at = fromisoformat(metadata.get('created_at', '2000-01-01T00:00:00'))
CreatedAt(d) ==
    IF "_metadata" \in DOMAIN d THEN d["_metadata"].created_at
    ELSE DEFAULT_CREATED_AT

\* the file system as one value: fs.dirs, fs.files, fs.baks
FS == [dirs |-> dirs, files |-> files, baks |-> baks]

----------------------------------------------------------------------------
(* SessionManager *)

\* outcomes of the write in save_session: the write succeeds, open() raises
\* (file untouched), json.dump raises after open(path, 'w') truncated the file
WriteOutcomes == {"ok", "open_fails", "dump_fails"}

\* save_session writing the metadata block alone
save_session_metadata_only(fs, u, s, d, t, out) ==
    LET k == <<u, s>>
        made == [fs EXCEPT !.dirs = @ \cup {u}]
    IN  IF out = "ok"
        THEN [fs  |-> [made EXCEPT !.files[k] = JsonFile(WithMetadata(<<>>, u, s, t), t)],
              ret |-> TRUE]
        ELSE [fs |-> made, ret |-> FALSE]

save_session(fs, u, s, d, t, out) ==
    LET k == <<u, s>>
        made == [fs EXCEPT !.dirs = @ \cup {u}]
    IN  CASE out = "ok" ->
               [fs  |-> [made EXCEPT !.files[k] = JsonFile(WithMetadata(d, u, s, t), t)],
                ret |-> TRUE]
          [] out = "open_fails" ->
               [fs |-> made, ret |-> FALSE]
          [] OTHER ->
               [fs |-> [made EXCEPT !.files[k] = Corrupt], ret |-> FALSE]

delete_session(fs, u, s) ==
    [fs |-> [fs EXCEPT !.files[<<u, s>>] = NoFile], ret |-> TRUE]

\* load_session reporting an expired record absent without deleting it
load_session_keeps_expired(fs, u, s, t) ==
    LET f == fs.files[<<u, s>>]
    IN  IF f.kind = "json" /\ t - CreatedAt(f.doc) <= SESSION_TTL_DAYS
        THEN [fs |-> fs, ret |-> PyDict(f.doc)]
        ELSE [fs |-> fs, ret |-> None]

load_session(fs, u, s, t) ==
    LET f == fs.files[<<u, s>>]
    IN  CASE f.kind = "none" -> [fs |-> fs, ret |-> None]
          [] f.kind = "corrupt" -> [fs |-> fs, ret |-> None]
          [] OTHER ->
               IF t - CreatedAt(f.doc) > SESSION_TTL_DAYS
               THEN [fs |-> delete_session(fs, u, s).fs, ret |-> None]
               ELSE [fs |-> fs, ret |-> PyDict(f.doc)]

\* the session files cleanup removes: parseable and older than max_age_days
Expired(fs, max_age_days, t) ==
    {k \in Keys : /\ k[1] \in fs.dirs
                  /\ fs.files[k].kind = "json"
                  /\ t - CreatedAt(fs.files[k].doc) > max_age_days}

\* any(user_dir.iterdir()): the directory holds a session file or a backup
DirHasEntry(fl, bk, u) ==
    \E s \in FileIds : fl[<<u, s>>].kind # "none" \/ bk[<<u, s>>].kind # "none"

\* a pass that gives up when it meets a file it cannot parse
cleanup_expired_sessions_stops_at_corrupt(fs, max_age_days, t) ==
    LET gone == IF \E k \in Keys : fs.files[k].kind = "corrupt" THEN {}
                ELSE Expired(fs, max_age_days, t)
        fl == [k \in Keys |-> IF k \in gone THEN NoFile ELSE fs.files[k]]
    IN  [fs  |-> [dirs  |-> {u \in fs.dirs : DirHasEntry(fl, fs.baks, u)},
                  files |-> fl,
                  baks  |-> fs.baks],
         ret |-> Cardinality(gone)]

cleanup_expired_sessions(fs, max_age_days, t) ==
    LET gone == Expired(fs, max_age_days, t)
        fl == [k \in Keys |-> IF k \in gone THEN NoFile ELSE fs.files[k]]
    IN  [fs  |-> [dirs  |-> {u \in fs.dirs : DirHasEntry(fl, fs.baks, u)},
                  files |-> fl,
                  baks  |-> fs.baks],
         ret |-> Cardinality(gone)]

\* outcomes of shutil.copy2 in rotate_session
CopyOutcomes == {"ok", "copy_fails"}

\* rotate_session leaving the backup it made
rotate_session_keeps_backup(fs, u, s, d, t, copy, out) ==
    LET k == <<u, s>>
        exists == fs.files[k].kind # "none"
        backed == IF exists /\ copy = "ok" THEN [fs EXCEPT !.baks[k] = fs.files[k]] ELSE fs
    IN  IF exists /\ copy = "copy_fails"
        THEN [fs |-> fs, ret |-> FALSE]
        ELSE save_session(backed, u, s, d, t, out)

rotate_session(fs, u, s, d, t, copy, out) ==
    LET k == <<u, s>>
        exists == fs.files[k].kind # "none"
    IN  IF exists /\ copy = "copy_fails"
        THEN \* except: restore the backup if one exists
             IF fs.baks[k].kind # "none"
             THEN [fs  |-> [fs EXCEPT !.files[k] = fs.baks[k], !.baks[k] = NoFile],
                   ret |-> FALSE]
             ELSE [fs |-> fs, ret |-> FALSE]
        ELSE LET backed == IF exists THEN [fs EXCEPT !.baks[k] = fs.files[k]] ELSE fs
                 saved == save_session(backed, u, s, d, t, out)
             IN  IF saved.ret /\ saved.fs.baks[k].kind # "none"
                 THEN [fs |-> [saved.fs EXCEPT !.baks[k] = NoFile], ret |-> TRUE]
                 ELSE [fs |-> saved.fs, ret |-> saved.ret]

----------------------------------------------------------------------------
(* Actions of the session cache *)

Apply(r) ==
    /\ dirs' = r.fs.dirs
    /\ files' = r.fs.files
    /\ baks' = r.fs.baks

SaveSession(u, s, d, out) ==
    LET r == save_session(FS, u, s, d, now, out)
    IN  /\ Apply(r)
        /\ last' = [op |-> "save", user |-> u, store |-> s, arg |-> d, ret |-> PyBool(r.ret),
                    fault |-> out]
        /\ UNCHANGED <<now, runVars>>

LoadSession(u, s) ==
    LET r == load_session(FS, u, s, now)
    IN  /\ Apply(r)
        /\ last' = [op |-> "load", user |-> u, store |-> s, arg |-> None, ret |-> r.ret,
                    fault |-> "ok"]
        /\ UNCHANGED <<now, runVars>>

DeleteSession(u, s) ==
    LET r == delete_session(FS, u, s)
    IN  /\ Apply(r)
        /\ last' = [op |-> "delete", user |-> u, store |-> s, arg |-> None,
                    ret |-> PyBool(r.ret), fault |-> "ok"]
        /\ UNCHANGED <<now, runVars>>

CleanupExpiredSessions(m) ==
    LET r == cleanup_expired_sessions(FS, m, now)
    IN  /\ Apply(r)
        /\ last' = [op |-> "cleanup", user |-> 0, store |-> 0, arg |-> PyInt(m),
                    ret |-> PyInt(r.ret), fault |-> "ok"]
        /\ UNCHANGED <<now, runVars>>

RotateSession(u, s, d, copy, out) ==
    LET r == rotate_session(FS, u, s, d, now, copy, out)
    IN  /\ Apply(r)
        /\ last' = [op |-> "rotate", user |-> u, store |-> s, arg |-> d,
                    ret |-> PyBool(r.ret),
                    fault |-> IF copy = "copy_fails" /\ files[<<u, s>>].kind # "none"
                              THEN copy ELSE out]
        /\ UNCHANGED <<now, runVars>>

\* the clock advances
Tick ==
    /\ now + TickDays <= MaxTicks * TickDays
    /\ now' = now + TickDays
    /\ last' = [op |-> "tick", user |-> 0, store |-> 0, arg |-> None, ret |-> None,
                fault |-> "ok"]
    /\ UNCHANGED <<dirs, files, baks, runVars>>

----------------------------------------------------------------------------
(* The retailer's site, as the engine's page queries see it *)

\* pages of a generated listing
MaxPages == 2
\* load-more clicks that fail within one run
MaxMisses == 1

\* the retry budget of _wait_for_elements (max_retries=3)
WAIT_MAX_RETRIES == 3
\* max_retries of the post-submit verification loop
VERIFY_MAX_RETRIES == 5

\* an offer is listed unclipped with a clip button ("U"), already clipped
\* ("C") or without a clip button ("X")
OfferKinds == {"U", "C", "X"}
\* a page of a generated listing is empty or holds one offer of any kind
PageChoices == {<<>>} \cup {<<k>> : k \in OfferKinds}
\* listings with pages of several offers: three pages of five unclipped
\* offers (spec section 8), and a page that mixes the three kinds
ScenarioLayouts == { << <<"U", "U">>, <<"U", "U">>, <<"U">> >>,
                     << <<"C", "U", "X", "U">> >> }
Layouts == (UNION {[1..n -> PageChoices] : n \in 1..MaxPages}) \cup ScenarioLayouts

\* an offer: its title, its other facts (description, savings, expiration,
\* terms: id), whether its clip button exists and whether it shows clipped
Offer(kind, p, i, dup) ==
    [title |-> IF dup THEN 0 ELSE 10 * p + i,
     id |-> 10 * p + i,
     btn |-> kind # "X",
     clipped |-> kind = "C"]

\* dup: every offer of the listing carries the same title
Listing(layout, dup) ==
    [p \in 1..Len(layout) |->
        [i \in 1..Len(layout[p]) |-> Offer(layout[p][i], p, i, dup)]]

NoSite == [pages |-> <<>>, cur |-> 0]
NoPage == [offers |-> <<>>, more |-> FALSE]
NoRun == [op |-> "none", user |-> 0, store |-> 0, layout |-> <<>>, dup |-> FALSE]
NoResult == [kind |-> "none"]

\* the interactions made through _wait_and_click
ClickNames == {"click_header_sign_in", "click_welcome_sign_in", "click_password_option",
               "click_submit", "click_clip", "click_load_more"}

\* a helper that reports True whenever it was given an element
_wait_and_click_reports_element(element, click) == element

\* _wait_and_click: element is whether an element was passed, click what
\* page.wait_for_timeout and element.click() did; an exception of either is
\* logged and the helper returns False
_wait_and_click(element, click) == element /\ click # "raises"

\* a call of _wait_and_click: what the click did ("none": no element, no
\* click) and what the call returned
Clicked(name, id, element, click) ==
    [e |-> name, id |-> id, click |-> IF element THEN click ELSE "none",
     ok |-> _wait_and_click(element, click)]

\* an interaction with the page or the cache, and the offer it is about
Act(name, id) ==
    IF name \in ClickNames THEN Clicked(name, id, TRUE, "ok")
    ELSE [e |-> name, id |-> id, click |-> "none", ok |-> FALSE]
NoAct == Act("none", 0)

\* the storage state of a context that never logged in / that logged in
FreshContextState == [cookies |-> "fresh"]
AuthContextState == [cookies |-> "auth"]

HeaderAnswers == {"raises", "empty", "no_header", "no_btn", "btn"}
WelcomeAnswers == {"raises", "none", "modal", "modal_btn"}
\* the modal is absent, or present with or without its two elements
ModalAnswers == {"raises", "none", "modal", "modal_1", "modal_2", "modal_12"}
Outcomes == {"ok", "raises"}
CloseOutcomes == {"ok", "context_raises", "browser_raises"}
\* chromium.launch raises, or browser.new_context does
LaunchOutcomes == {"ok", "raises", "context_raises"}

RunKey == <<run.user, run.store>>

----------------------------------------------------------------------------
(* DynamicCouponService._wait_for_elements: one attempt *)

\* what the attempt gives: another attempt ("retry"), the budget exhausted
\* ("none"), the elements the query returned, or the exception of
\* page.wait_for_timeout ("raised"), which is called outside the try after
\* every attempt that found nothing
_wait_for_elements(ans, wait, tries) ==
    CASE ans \notin {"raises", "empty"} -> ans
      [] wait = "raises" -> "raised"
      [] tries + 1 < WAIT_MAX_RETRIES -> "retry"
      [] OTHER -> "none"

\* the query found something, so that no wait follows it
Found(ans, wait) == ans \notin {"raises", "empty"} => wait = "ok"

----------------------------------------------------------------------------
(* DynamicCouponService.clip_coupons *)

loopVars == <<site, page_result, idx, clipped_coupons, misses, more_clicks,
              requery_failed>>

\* the step performed the interactions names, the last of them on offer id
Did(names, name, id) ==
    /\ act' = Act(name, id)
    /\ events' = events \cup names

\* the step called _wait_and_click for the interaction name
DidClick(name, id, element, click) ==
    /\ act' = Clicked(name, id, element, click)
    /\ events' = IF element THEN events \cup {name} ELSE events

DidNothing ==
    /\ act' = NoAct
    /\ UNCHANGED events

\* the step interacted with nothing; names are what the page answered
Saw(names) ==
    /\ act' = NoAct
    /\ events' = events \cup names

StorageStateWritten(u, s) ==
    last' = [op |-> "storage_state", user |-> u, store |-> s,
             arg |-> None, ret |-> None, fault |-> "ok"]

\* lines 375-434: the result is initialised, the browser launched and the
\* cached session "loaded": context.storage_state(path=session_file) writes
\* the state of the new context to the session file
StartClip(u, cfg, seed, layout, dup, launch, out) ==
    LET s == StoreIdentity(cfg, seed)
        k == <<u, s>>
        exists == files[k].kind # "none"
        loaded == exists /\ out = "ok"
        opened == {"opened_browser", "opened_context"}
    IN  /\ pc = "idle"
        /\ dup => layout \in ScenarioLayouts
        /\ launch # "ok" => out = "ok"
        /\ run' = [op |-> "clip", user |-> u, store |-> s, layout |-> layout, dup |-> dup,
                   config |-> cfg]
        /\ site' = [pages |-> Listing(layout, dup), cur |-> 1]
        /\ result' = [kind |-> "clip", success |-> FALSE, clipped_coupons |-> <<>>,
                      error |-> IF launch = "ok" THEN "none" ELSE "exception",
                      raised |-> FALSE]
        /\ session_loaded' = (launch = "ok" /\ loaded)
        /\ CASE launch = "raises" ->
                  \* lines 491-497: browser is still None
                  /\ Saw({"exception"})
                  /\ pc' = "done"
                  /\ UNCHANGED <<files, last>>
             [] launch = "context_raises" ->
                  /\ Saw({"opened_browser", "exception"})
                  /\ pc' = "closing"
                  /\ UNCHANGED <<files, last>>
             [] loaded ->
                  /\ files' = [files EXCEPT ![k] = JsonFile(FreshContextState, now)]
                  /\ Did(opened \cup {"session_file_exists", "write_session"},
                         "write_session", 0)
                  /\ StorageStateWritten(u, s)
                  /\ pc' = "c_verify"
             [] OTHER ->
                  /\ Saw(opened \cup (IF exists THEN {"session_file_exists"} ELSE {}))
                  /\ pc' = "l_header"
                  /\ UNCHANGED <<files, last>>
        /\ UNCHANGED <<now, dirs, baks, wait_tries, retry_count, current_url, page_result, idx,
                       clipped_coupons, misses, more_clicks, requery_failed>>

\* lines 447-453: the cached session is checked
C_Verify(ans, wait) ==
    LET w == _wait_for_elements(ans, wait, wait_tries)
    IN  /\ pc = "c_verify"
        /\ Found(ans, wait)
        /\ CASE w = "retry" ->
                  /\ wait_tries' = wait_tries + 1
                  /\ UNCHANGED <<pc, session_loaded, result>>
             [] w = "raised" ->
                  \* lines 484-486: the exception ends the run
                  /\ wait_tries' = 0
                  /\ pc' = "closing"
                  /\ result' = [result EXCEPT !.error = "exception"]
                  /\ UNCHANGED session_loaded
             [] OTHER ->
                  /\ wait_tries' = 0
                  /\ session_loaded' = (w = "no_btn")
                  /\ pc' = IF w = "no_btn" THEN "n_nav" ELSE "l_header"
                  /\ UNCHANGED result
        /\ Saw(CASE w = "retry" -> {}
                 [] w = "raised" -> {"exception"}
                 [] w = "no_btn" -> {"session_valid"}
                 [] OTHER -> {"session_check_failed"})
        /\ UNCHANGED <<cacheVars, run, retry_count, current_url, loopVars>>

\* lines 458-461: login_success is false
LoginFailed ==
    /\ pc' = "closing"
    /\ result' = [result EXCEPT !.error = "Failed to login"]
    /\ wait_tries' = 0
    /\ retry_count' = 0

LoginStep(next) ==
    /\ pc' = next
    /\ wait_tries' = 0
    /\ retry_count' = 0
    /\ UNCHANGED result

\* _handle_login_flow, step 1
L_Header(ans, wait) ==
    LET w == _wait_for_elements(ans, wait, wait_tries)
    IN  /\ pc = "l_header"
        /\ Found(ans, wait)
        /\ CASE w = "retry" ->
                  /\ wait_tries' = wait_tries + 1
                  /\ DidNothing
                  /\ UNCHANGED <<pc, retry_count, result>>
             [] w = "btn" ->
                  /\ LoginStep("l_welcome")
                  /\ Did({"click_header_sign_in"}, "click_header_sign_in", 0)
             [] w = "raised" -> LoginFailed /\ Saw({"exception"})
             [] OTHER -> LoginFailed /\ DidNothing
        /\ UNCHANGED <<cacheVars, run, session_loaded, current_url, loopVars>>

\* step 2 with the welcome modal required
L_Welcome_required(ans) ==
    /\ pc = "l_welcome"
    /\ IF ans = "modal_btn"
       THEN /\ LoginStep("l_options")
            /\ Did({"saw_welcome_modal", "click_welcome_sign_in"},
                   "click_welcome_sign_in", 0)
       ELSE LoginFailed /\ DidNothing
    /\ UNCHANGED <<cacheVars, run, session_loaded, current_url, loopVars>>

\* _handle_login_flow, step 2: the optional welcome modal
L_Welcome(ans) ==
    /\ pc = "l_welcome"
    /\ CASE ans = "raises" -> LoginFailed /\ Saw({"exception"})
         [] ans = "modal_btn" ->
              /\ LoginStep("l_options")
              /\ Did({"saw_welcome_modal", "click_welcome_sign_in"},
                     "click_welcome_sign_in", 0)
         [] ans = "modal" -> LoginStep("l_options") /\ Saw({"saw_welcome_modal"})
         [] OTHER -> LoginStep("l_options") /\ DidNothing
    /\ UNCHANGED <<cacheVars, run, session_loaded, current_url, loopVars>>

\* _handle_login_flow, step 3: modal_1 has the email box only, modal_2 the
\* password button only
L_Options(ans, fill) ==
    /\ pc = "l_options"
    /\ CASE ans = "raises" -> LoginFailed /\ Saw({"exception"})
         [] ans = "none" -> LoginFailed /\ DidNothing
         [] ans \in {"modal", "modal_2"} -> LoginFailed /\ Saw({"saw_login_modal"})
         [] fill = "raises" ->
              LoginFailed /\ Did({"saw_login_modal", "fill_email", "exception"}, "fill_email", 0)
         [] ans = "modal_1" ->
              LoginFailed /\ Did({"saw_login_modal", "fill_email"}, "fill_email", 0)
         [] OTHER ->
              /\ LoginStep("l_password")
              /\ Did({"saw_login_modal", "fill_email", "click_password_option"},
                     "click_password_option", 0)
    /\ UNCHANGED <<cacheVars, run, session_loaded, current_url, loopVars>>

\* step 4 skipped when the password modal is absent
L_Password_optional(ans, fill) ==
    /\ pc = "l_password"
    /\ IF ans = "modal_12" /\ fill = "ok"
       THEN Did({"saw_password_modal", "fill_password", "click_submit"}, "click_submit", 0)
       ELSE DidNothing
    /\ LoginStep("l_verify")
    /\ UNCHANGED <<cacheVars, run, session_loaded, current_url, loopVars>>

\* _handle_login_flow, step 4: modal_1 has the password box only, modal_2
\* the submit button only
L_Password(ans, fill) ==
    /\ pc = "l_password"
    /\ CASE ans = "raises" -> LoginFailed /\ Saw({"exception"})
         [] ans = "none" -> LoginFailed /\ DidNothing
         [] ans \in {"modal", "modal_2"} -> LoginFailed /\ Saw({"saw_password_modal"})
         [] fill = "raises" ->
              LoginFailed /\ Did({"saw_password_modal", "fill_password", "exception"},
                                 "fill_password", 0)
         [] ans = "modal_1" ->
              LoginFailed /\ Did({"saw_password_modal", "fill_password"}, "fill_password", 0)
         [] OTHER ->
              /\ LoginStep("l_verify")
              /\ Did({"saw_password_modal", "fill_password", "click_submit"},
                     "click_submit", 0)
    /\ UNCHANGED <<cacheVars, run, session_loaded, current_url, loopVars>>

\* line 253: the fragments of a URL that mark a login page
LOGIN_URL_FRAGMENTS == {"/signin", "/login", "/account/sign-in"}

\* what page.url can read after the submit: the path of the page
VerifyUrls == {"/", "/signin", "/login", "/account/sign-in"}

\* an attempt that takes the header for the answer whatever the URL
VerifyAttempt_ignores_url(url, ans) ==
    CASE ans = "raises" -> "raise"
      [] ans = "no_btn" -> "accept"
      [] OTHER -> "retry"

\* lines 249-271, one pass of the loop body: the URL is read first and the
\* header is only queried on a page that is no login page
VerifyAttempt(url, ans) ==
    CASE ans = "raises" -> "raise"
      [] url \in LOGIN_URL_FRAGMENTS -> "retry"
      [] ans = "no_btn" -> "accept"
      [] OTHER -> "retry"

\* _handle_login_flow, one attempt of the verification loop
L_Verify(url, ans) ==
    LET v == VerifyAttempt(url, ans)
    IN  /\ pc = "l_verify"
        /\ current_url' = url
        /\ CASE v = "raise" -> LoginFailed /\ Saw({"exception"})
             [] v = "accept" ->
                  LoginStep("c_persist") /\ Did({"saw_signed_in", "login_ok"}, "login_ok", 0)
             [] retry_count + 1 < VERIFY_MAX_RETRIES ->
                  /\ retry_count' = retry_count + 1
                  /\ DidNothing
                  /\ UNCHANGED <<pc, wait_tries, result>>
             [] OTHER -> LoginFailed /\ DidNothing
        /\ UNCHANGED <<cacheVars, run, session_loaded, loopVars>>

\* lines 463-466: the new session is cached
C_Persist(out) ==
    /\ pc = "c_persist"
    /\ dirs' = dirs \cup {run.user}
    /\ IF out = "ok"
       THEN /\ files' = [files EXCEPT ![RunKey] = JsonFile(AuthContextState, now)]
            /\ Did({"write_session"}, "write_session", 0)
            /\ StorageStateWritten(run.user, run.store)
            /\ pc' = "n_nav"
            /\ UNCHANGED result
       ELSE /\ result' = [result EXCEPT !.error = "exception"]
            /\ pc' = "closing"
            /\ DidNothing
            /\ UNCHANGED <<files, last>>
    /\ UNCHANGED <<now, baks, run, session_loaded, wait_tries, retry_count, current_url, loopVars>>

\* what _navigate_to_coupons sees: the heading is only queried when the
\* link was found
NavSeen(nav, heading) ==
    (IF nav = "link" THEN {"saw_coupon_link"} ELSE {})
      \cup (IF nav = "link" /\ heading = "heading" THEN {"saw_coupon_heading"} ELSE {})
      \cup (IF nav = "raises" \/ (nav = "link" /\ heading = "raises")
            THEN {"exception"} ELSE {})

\* _navigate_to_coupons and lines 468-472
N_Navigate(nav, heading) ==
    /\ pc = "n_nav"
    /\ IF nav = "link" /\ heading = "heading"
       THEN /\ pc' = "k_page"
            /\ Saw(NavSeen(nav, heading))
            /\ UNCHANGED result
       ELSE /\ pc' = "closing"
            /\ Saw(NavSeen(nav, heading) \cup {"nav_failed"})
            /\ result' = [result EXCEPT !.error = "Failed to navigate to coupons section"]
    /\ UNCHANGED <<cacheVars, run, session_loaded, wait_tries, retry_count, current_url, loopVars>>

----------------------------------------------------------------------------
(* DynamicCouponService._clip_coupons *)

\* next((c for c in available_coupons if c.offer.title == title), None):
\* the position of the first offer carrying the title, 0 when there is none
FirstWithTitle(offers, title) ==
    IF \E i \in 1..Len(offers) : offers[i].title = title
    THEN CHOOSE i \in 1..Len(offers) :
            /\ offers[i].title = title
            /\ \A j \in 1..(i - 1) : offers[j].title # title
    ELSE 0

\* current_coupon and current_coupon.clip_btn.is_clipped
VerifiedClipped(offers, title) ==
    LET i == FirstWithTitle(offers, title)
    IN  i # 0 /\ offers[i].clipped

\* the facts appended to clipped_coupons
OfferFacts(coupon) == [title |-> coupon.title, id |-> coupon.id]

\* the test without is_clipped
ShouldClip_any_button(coupon) == coupon.btn

\* the if of lines 324-326
ShouldClip(coupon) == coupon.btn /\ ~coupon.clipped

\* lines 341-351: the list after the verification of coupon, given the
\* answer of the verification query
AfterVerify(list, coupon, verify, offers) ==
    IF verify = "ok" /\ VerifiedClipped(offers, coupon.title)
    THEN Append(list, OfferFacts(coupon))
    ELSE list

\* a loop that stops after its first page
HasLoadMore_never(pr) == FALSE

\* the if of lines 358-359, on the page the query returned
HasLoadMore(pr) == pr.more

\* lines 312-319: the current page of coupons is queried
K_Page(ans) ==
    LET offers == site.pages[site.cur]
    IN  /\ pc = "k_page"
        /\ IF ans = "ok"
           THEN /\ page_result' = [offers |-> offers, more |-> site.cur < Len(site.pages)]
                /\ Did({"query_page"}, "query_page", site.cur)
                /\ IF offers = <<>>
                   THEN pc' = "k_done" /\ idx' = 0
                   ELSE pc' = "k_offer" /\ idx' = 1
           ELSE /\ page_result' = NoPage
                /\ Did({"page_query_failed"}, "page_query_failed", site.cur)
                /\ pc' = "k_done"
                /\ idx' = 0
        /\ UNCHANGED <<cacheVars, run, session_loaded, wait_tries, retry_count, current_url, site,
                       clipped_coupons, misses, more_clicks, requery_failed, result>>

\* a loop that leaves the page at the first offer whose verification query
\* raises or returns nothing
K_Offer_escalates(click, verify) ==
    LET coupon == page_result.offers[idx]
        clicked == [site EXCEPT !.pages[site.cur][idx].clipped = TRUE]
        after == IF click = "registers" THEN clicked ELSE site
        failed == ShouldClip(coupon) /\ verify # "ok"
    IN  /\ pc = "k_offer"
        /\ IF ShouldClip(coupon)
           THEN /\ DidClick("click_clip", coupon.id, TRUE, click)
                /\ site' = after
                /\ clipped_coupons' =
                      AfterVerify(clipped_coupons, coupon, verify, after.pages[after.cur])
                /\ requery_failed' = IF verify = "ok" THEN requery_failed
                                     ELSE requery_failed \cup {coupon.id}
           ELSE /\ DidNothing
                /\ UNCHANGED <<site, clipped_coupons, requery_failed>>
        /\ IF idx < Len(page_result.offers) /\ ~failed
           THEN idx' = idx + 1 /\ pc' = "k_offer"
           ELSE idx' = 0 /\ pc' = IF failed THEN "k_done" ELSE "k_more"
        /\ UNCHANGED <<cacheVars, run, session_loaded, wait_tries, retry_count, current_url,
                       page_result, misses, more_clicks, result>>

\* lines 322-355: one offer of the page is processed
K_Offer(click, verify) ==
    LET coupon == page_result.offers[idx]
        clicked == [site EXCEPT !.pages[site.cur][idx].clipped = TRUE]
        after == IF click = "registers" THEN clicked ELSE site
    IN  /\ pc = "k_offer"
        /\ IF ShouldClip(coupon)
           THEN /\ DidClick("click_clip", coupon.id, TRUE, click)
                /\ site' = after
                /\ clipped_coupons' =
                      AfterVerify(clipped_coupons, coupon, verify, after.pages[after.cur])
                /\ requery_failed' = IF verify = "ok" THEN requery_failed
                                     ELSE requery_failed \cup {coupon.id}
           ELSE /\ DidNothing
                /\ UNCHANGED <<site, clipped_coupons, requery_failed>>
        /\ IF idx < Len(page_result.offers)
           THEN idx' = idx + 1 /\ pc' = "k_offer"
           ELSE idx' = 0 /\ pc' = "k_more"
        /\ UNCHANGED <<cacheVars, run, session_loaded, wait_tries, retry_count, current_url,
                       page_result, misses, more_clicks, result>>

\* lines 357-364: the load-more button; a click that raises is swallowed by
\* _wait_and_click and leaves the page where it is, and the loop goes round
\* again on it. misses counts such clicks up to MaxMisses, more_clicks the
\* clicks that loaded a page. On a listing with repeated titles every further
\* pass can append to clipped_coupons, so the raising clicks are capped by
\* MaxMisses there
K_More(click) ==
    /\ pc = "k_more"
    /\ IF HasLoadMore(page_result)
       THEN /\ click = "raises" => (misses < MaxMisses \/ ~run.dup)
            /\ DidClick("click_load_more", site.cur, TRUE, click)
            /\ more_clicks' = IF click = "ok" THEN more_clicks + 1 ELSE more_clicks
            /\ site' = IF click = "ok" THEN [site EXCEPT !.cur = @ + 1] ELSE site
            /\ misses' = IF click = "ok" \/ misses >= MaxMisses THEN misses
                         ELSE misses + 1
            /\ pc' = "k_page"
            /\ UNCHANGED page_result
       ELSE /\ pc' = "k_done"
            /\ page_result' = NoPage
            /\ DidNothing
            /\ UNCHANGED <<site, misses, more_clicks>>
    /\ UNCHANGED <<cacheVars, run, session_loaded, wait_tries, retry_count, current_url, idx,
                   clipped_coupons, requery_failed, result>>

\* success reported for every run that reached the clip loop
ClipSuccess_always(list) == TRUE

\* line 476: result["success"] = len(clipped_coupons) > 0
ClipSuccess(list) == Len(list) > 0

\* lines 474-477: the result is assembled
K_Done ==
    /\ pc = "k_done"
    /\ result' = [result EXCEPT !.clipped_coupons = clipped_coupons,
                                !.success = ClipSuccess(clipped_coupons)]
    /\ pc' = "closing"
    /\ clipped_coupons' = <<>>
    /\ DidNothing
    /\ UNCHANGED <<cacheVars, run, session_loaded, wait_tries, retry_count, current_url, site,
                   page_result, idx, misses, more_clicks, requery_failed>>

\* what a finally block closed: the context unless its close raised or it
\* was never opened, the browser unless its close raised or was not reached
Closed(out, reached) ==
    (IF "opened_context" \in events /\ out # "context_raises"
     THEN {"closed_context"} ELSE {})
      \cup (IF out = "ok" \/ (out = "context_raises" /\ reached)
            THEN {"closed_browser"} ELSE {})

\* lines 484-499: the context and the browser are closed, the result returned;
\* an exception of context.close() is caught by the outer except, one of
\* browser.close() leaves the call
Closing(out) ==
    /\ pc = "closing"
    /\ out = "context_raises" => "opened_context" \in events
    /\ result' = CASE out = "context_raises" -> [result EXCEPT !.error = "exception"]
                   [] out = "browser_raises" -> [result EXCEPT !.raised = TRUE]
                   [] OTHER -> result
    /\ pc' = "done"
    /\ Saw(Closed(out, TRUE))
    /\ UNCHANGED <<cacheVars, run, session_loaded, wait_tries, retry_count, current_url, loopVars>>

\* the call has returned to its caller
Return ==
    /\ pc = "done"
    /\ pc' = "idle"
    /\ run' = NoRun
    /\ session_loaded' = FALSE
    /\ wait_tries' = 0
    /\ retry_count' = 0
    /\ current_url' = "none"
    /\ events' = {}
    /\ act' = NoAct
    /\ more_clicks' = 0
    /\ requery_failed' = {}
    /\ site' = NoSite
    /\ page_result' = NoPage
    /\ idx' = 0
    /\ clipped_coupons' = <<>>
    /\ misses' = 0
    /\ result' = NoResult
    /\ UNCHANGED cacheVars

----------------------------------------------------------------------------
(* StoreDiscoveryService.analyze_store *)

\* Strings are sequences of tokens: a word, a blank (" "), a separator.
\* common_suffixes, lines 141-148
common_suffixes ==
    << <<"|", " ", "Official Site">>, <<"|", " ", "Home">>,
       <<"|", " ", "Online Grocery Shopping">>,
       <<"-", " ", "Official Site">>, <<"-", " ", "Home">>,
       <<"-", " ", "Online Grocery Shopping">> >>

\* str.endswith
endswith(s, suffix) ==
    /\ Len(s) >= Len(suffix)
    /\ SubSeq(s, Len(s) - Len(suffix) + 1, Len(s)) = suffix

\* lines 149-151: every suffix of the list is tried once, in the list's order
RECURSIVE StripSuffixes(_, _)
StripSuffixes(s, i) ==
    IF i > Len(common_suffixes) THEN s
    ELSE StripSuffixes(IF endswith(s, common_suffixes[i])
                       THEN SubSeq(s, 1, Len(s) - Len(common_suffixes[i]))
                       ELSE s, i + 1)

\* str.split(): the words between the blanks
split(s) == SelectSeq(s, LAMBDA t : t # " ")

\* ' '.join(words)
RECURSIVE join(_)
join(words) ==
    IF Len(words) <= 1 THEN words
    ELSE <<words[1], " ">> \o join(Tail(words))

\* the title with its blanks left as they are
CleanTitle_keeps_blanks(s) == StripSuffixes(s, 1)
\* lines 149-153
CleanTitle(s) == join(split(StripSuffixes(s, 1)))

\* the URLs a store is discovered at: scheme, host
DiscoveryUrls == { <<"https://", "www.kroger.com">>, <<"https://", "albertsons.com">> }

\* line 157: urlparse(url).netloc.split('.')[0].title()
FallbackName(url) ==
    CASE url[2] = "www.kroger.com" -> <<"Www">>
      [] url[2] = "albertsons.com" -> <<"Albertsons">>

\* str.startswith('http')
StartsWithHttp(s) == s # <<>> /\ s[1] \in {"http://", "https://", "httpfoo"}

\* urllib.parse.urljoin(base, href) for a base without a path
urljoin(base, href) ==
    CASE href = <<>> -> base
      [] href[1] = "//" -> <<base[1]>> \o Tail(href)
      [] href[1] \in {"http://", "https://", "javascript:"} -> href
      [] href[1] = "/" -> base \o href
      [] OTHER -> base \o <<"/">> \o href

\* what pydantic's HttpUrl accepts: an http or https URL with a host
IsHttpUrl(s) == Len(s) >= 2 /\ s[1] \in {"http://", "https://"}

\* the element is missing, reading it raises or gives None, or it has a text
Missing == [kind |-> "none", text |-> <<>>]
Unreadable == [kind |-> "raises", text |-> <<>>]
Null == [kind |-> "null", text |-> <<>>]
Text(s) == [kind |-> "text", text |-> s]

\* lines 137-158: the store name
StoreName(url, title) ==
    LET store_name == IF title.kind = "text" THEN CleanTitle(title.text) ELSE <<>>
    IN  IF store_name = <<>> THEN FallbackName(url) ELSE store_name

\* lines 161-184: the login URL
LoginUrl(url, button) ==
    LET base_url == url
        login_url == IF button.kind # "text" THEN <<>>
                     ELSE IF button.text # <<>> /\ ~StartsWithHttp(button.text)
                          THEN urljoin(base_url, button.text)
                          ELSE button.text
    IN  CASE login_url # <<>> -> login_url
          [] url[2] = "albertsons.com" -> base_url \o <<"/", "account", "/", "sign-in">>
          [] OTHER -> base_url \o <<"/", "signin">>

\* page titles: a name, a known suffix or two behind it, blanks around them
TitleBodies == { <<>>, <<"Acme">>, <<"Acme", " ", "Grocery">>,
                 <<"Acme", " ", " ", "Grocery">> }
TitlePads == { <<>>, <<" ">> }
TitleTails ==
    {<<>>} \cup {common_suffixes[i] : i \in DOMAIN common_suffixes}
           \cup {common_suffixes[i] \o pad \o common_suffixes[j] :
                    i \in {1, 2}, j \in {1, 2}, pad \in TitlePads}
Titles == {Missing, Unreadable, Null}
            \cup {Text(pre \o body \o mid \o tail \o post) :
                     pre \in TitlePads, body \in TitleBodies, mid \in TitlePads,
                     tail \in TitleTails, post \in TitlePads}
\* href values of the sign-in button
Hrefs == {Missing, Unreadable, Null}
           \cup {Text(h) : h \in { <<>>, <<"/", "login">>, <<"login">>,
                                   <<"https://", "accounts.acme.com", "/", "signin">>,
                                   <<"//", "cdn.acme.com", "/", "login">>,
                                   <<"javascript:", "void(0)">>, <<"httpfoo">> }}

\* the pages analyze_store is run on beside the other engine calls
RunTitles == {Missing, Text(<<"Acme", " ", "Grocery", " ", "|", " ", "Official Site">>)}
RunHrefs == {Missing, Text(<<"/", "login">>), Text(<<"javascript:", "void(0)">>)}

NoConfig == [name |-> <<>>, base_url |-> <<>>, login_url |-> <<>>]

\* what a launch outside every try block leaves behind; the exit of
\* async with async_playwright() stops the driver
Launched(launch) ==
    CASE launch = "raises" -> {"exception", "playwright_stopped"}
      [] launch = "context_raises" -> {"opened_browser", "exception", "playwright_stopped"}
      [] OTHER -> {"opened_browser", "opened_context"}

\* lines 79-111: the browser is launched and the context created, outside
\* every try block; the page at url shows title and the sign-in button href
StartAnalyze(launch, url, title, href) ==
    /\ pc = "idle"
    /\ run' = [op |-> "analyze_store", user |-> 0, store |-> 0, layout |-> <<>>,
               dup |-> FALSE]
    /\ site' = [pages |-> <<>>, cur |-> 0, url |-> url, title |-> title, href |-> href]
    /\ result' = [kind |-> "analyze_store", ret |-> "none", raised |-> launch # "ok",
                  config |-> NoConfig]
    /\ pc' = IF launch = "ok" THEN "a_page" ELSE "done"
    /\ Saw(Launched(launch))
    /\ UNCHANGED <<cacheVars, session_loaded, wait_tries, retry_count, current_url, page_result, idx,
                   clipped_coupons, misses, more_clicks, requery_failed>>

\* lines 113-202: the page is loaded and queried and the StoreConfig built;
\* StoreConfig(...) raises when login_url is no HttpUrl
A_Page(goto, ans) ==
    LET login_url == LoginUrl(site.url, site.href)
    IN  /\ pc = "a_page"
        /\ pc' = "a_closing"
        /\ CASE goto = "raises" \/ ans = "raises" ->
                  Saw({"exception"}) /\ UNCHANGED result
             [] ans \in {"empty", "no_header"} ->
                  DidNothing /\ UNCHANGED result
             [] ~IsHttpUrl(login_url) ->
                  Saw({"saw_header", "exception"}) /\ UNCHANGED result
             [] OTHER ->
                  \* line 196 logs store_config.credentials
                  /\ Saw({"saw_header", "logged_credentials"})
                  /\ result' = [result EXCEPT !.ret = "config",
                                 !.config = [name |-> StoreName(site.url, site.title),
                                             base_url |-> site.url,
                                             login_url |-> login_url]]
        /\ UNCHANGED <<cacheVars, run, session_loaded, wait_tries, retry_count, current_url, loopVars>>

\* lines 203-205: the context and the browser are closed
A_Closing(out) ==
    /\ pc = "a_closing"
    /\ result' = IF out # "ok" THEN [result EXCEPT !.raised = TRUE] ELSE result
    /\ pc' = "done"
    /\ Saw(Closed(out, FALSE) \cup {"playwright_stopped"})
    /\ UNCHANGED <<cacheVars, run, session_loaded, wait_tries, retry_count, current_url, loopVars>>

----------------------------------------------------------------------------
(* StoreDiscoveryService.verify_login and its _handle_login_flow *)

StartVerify(u, cfg, seed, launch) ==
    /\ pc = "idle"
    /\ run' = [op |-> "verify_login", user |-> u, store |-> StoreIdentity(cfg, seed),
               layout |-> <<>>, dup |-> FALSE, config |-> cfg]
    /\ result' = [kind |-> "verify_login", ret |-> FALSE, raised |-> launch # "ok"]
    /\ pc' = IF launch = "ok" THEN "d_header" ELSE "done"
    /\ Saw(Launched(launch))
    /\ UNCHANGED <<cacheVars, session_loaded, wait_tries, retry_count, current_url, loopVars>>

\* step 1: the header sign-in button is clicked when it is found
D_Header(ans) ==
    /\ pc = "d_header"
    /\ CASE ans = "raises" -> pc' = "d_closing" /\ DidNothing
         [] ans = "btn" ->
              /\ pc' = "d_welcome"
              /\ Did({"click_header_sign_in"}, "click_header_sign_in", 0)
         [] OTHER -> pc' = "d_welcome" /\ DidNothing
    /\ UNCHANGED <<cacheVars, run, session_loaded, wait_tries, retry_count, current_url, loopVars,
                   result>>

\* step 2: the welcome modal
D_Welcome(ans) ==
    /\ pc = "d_welcome"
    /\ CASE ans = "raises" -> pc' = "d_closing" /\ Saw({"exception"})
         [] ans = "modal_btn" ->
              /\ pc' = "d_options"
              /\ Did({"saw_welcome_modal", "click_welcome_sign_in"},
                     "click_welcome_sign_in", 0)
         [] ans = "modal" ->
              \* line 232: the button is passed on without a test
              /\ pc' = "d_options"
              /\ act' = Clicked("click_welcome_sign_in", 0, FALSE, "none")
              /\ events' = events \cup {"saw_welcome_modal"}
         [] OTHER -> pc' = "d_options" /\ DidNothing
    /\ UNCHANGED <<cacheVars, run, session_loaded, wait_tries, retry_count, current_url, loopVars,
                   result>>

\* step 3: the login options modal (modal_1: email input only, modal_2:
\* password button only); its absence is skipped
D_Options(ans, fill) ==
    LET hasEmail == ans \in {"modal_1", "modal_12"}
        hasBtn == ans \in {"modal_2", "modal_12"}
    IN  /\ pc = "d_options"
        /\ CASE ans = "raises" -> pc' = "d_closing" /\ DidNothing
             [] hasEmail /\ fill = "raises" ->
                  pc' = "d_closing" /\ Did({"fill_email"}, "fill_email", 0)
             [] hasBtn ->
                  /\ pc' = "d_password"
                  /\ Did((IF hasEmail THEN {"fill_email"} ELSE {})
                            \cup {"click_password_option"}, "click_password_option", 0)
             [] hasEmail -> pc' = "d_password" /\ Did({"fill_email"}, "fill_email", 0)
             [] OTHER -> pc' = "d_password" /\ DidNothing
        /\ UNCHANGED <<cacheVars, run, session_loaded, wait_tries, retry_count, current_url,
                       loopVars, result>>

\* step 4: the password modal (modal_1: password input only, modal_2: submit
\* button only); the flow returns True whenever the modal is found
D_Password(ans, fill) ==
    LET hasBox == ans \in {"modal_1", "modal_12"}
        hasBtn == ans \in {"modal_2", "modal_12"}
    IN  /\ pc = "d_password"
        /\ CASE ans = "raises" -> pc' = "d_closing" /\ Saw({"exception"})
             [] ans = "none" -> pc' = "d_closing" /\ DidNothing
             [] hasBox /\ fill = "raises" ->
                  /\ pc' = "d_closing"
                  /\ Did({"saw_password_modal", "fill_password", "exception"},
                         "fill_password", 0)
             [] OTHER ->
                  /\ pc' = "d_check"
                  /\ Did({"saw_password_modal"}
                            \cup (IF hasBox THEN {"fill_password"} ELSE {})
                            \cup (IF hasBtn THEN {"click_submit"} ELSE {})
                            \cup {"login_ok"}, "login_ok", 0)
        /\ UNCHANGED <<cacheVars, run, session_loaded, wait_tries, retry_count, current_url,
                       loopVars, result>>

\* lines 328-356: the URL is checked and the session cached
D_Check(url, out) ==
    /\ pc = "d_check"
    /\ pc' = "d_closing"
    /\ IF url = "login_url"
       THEN DidNothing /\ UNCHANGED <<dirs, files, last, result>>
       ELSE /\ dirs' = dirs \cup {run.user}
            /\ IF out = "ok"
               THEN /\ files' = [files EXCEPT ![RunKey] = JsonFile(AuthContextState, now)]
                    /\ Did({"write_session"}, "write_session", 0)
                    /\ StorageStateWritten(run.user, run.store)
                    /\ result' = [result EXCEPT !.ret = TRUE]
               ELSE DidNothing /\ UNCHANGED <<files, last, result>>
    /\ UNCHANGED <<now, baks, run, session_loaded, wait_tries, retry_count, current_url, loopVars>>

\* lines 361-363: the context and the browser are closed
D_Closing(out) ==
    /\ pc = "d_closing"
    /\ result' = IF out # "ok" THEN [result EXCEPT !.raised = TRUE] ELSE result
    /\ pc' = "done"
    /\ Saw(Closed(out, FALSE) \cup {"playwright_stopped"})
    /\ UNCHANGED <<cacheVars, run, session_loaded, wait_tries, retry_count, current_url, loopVars>>

----------------------------------------------------------------------------

Init ==
    /\ now = 0
    /\ dirs = {}
    /\ files = [k \in Keys |-> NoFile]
    /\ baks = [k \in Keys |-> NoFile]
    /\ last = [op |-> "init", user |-> 0, store |-> 0, arg |-> None, ret |-> None,
               fault |-> "ok"]
    /\ pc = "idle"
    /\ run = NoRun
    /\ session_loaded = FALSE
    /\ wait_tries = 0
    /\ retry_count = 0
    /\ current_url = "none"
    /\ events = {}
    /\ act = NoAct
    /\ more_clicks = 0
    /\ requery_failed = {}
    /\ site = NoSite
    /\ page_result = NoPage
    /\ idx = 0
    /\ clipped_coupons = <<>>
    /\ misses = 0
    /\ result = NoResult

Next ==
    \/ \E u \in Users, s \in StoreIds, d \in SessionStates, out \in WriteOutcomes :
          SaveSession(u, s, d, out)
    \/ \E u \in Users, s \in StoreIds : LoadSession(u, s)
    \/ \E u \in Users, s \in StoreIds : DeleteSession(u, s)
    \/ \E m \in MaxAgeChoices : CleanupExpiredSessions(m)
    \/ \E u \in Users, s \in StoreIds, d \in SessionStates,
          copy \in CopyOutcomes, out \in WriteOutcomes :
          RotateSession(u, s, d, copy, out)
    \/ Tick

\* the session cache driven through the SessionManager
Spec == Init /\ [][Next]_vars

NextRun ==
    \/ /\ pc = "idle"
       /\ \E u \in Users, cfg \in RunConfigs, seed \in HashSeeds, layout \in Layouts,
             dup \in BOOLEAN, launch \in LaunchOutcomes, out \in Outcomes :
             StartClip(u, cfg, seed, layout, dup, launch, out)
    \/ \E ans \in HeaderAnswers, wait \in Outcomes : C_Verify(ans, wait)
    \/ \E ans \in HeaderAnswers, wait \in Outcomes : L_Header(ans, wait)
    \/ \E ans \in WelcomeAnswers : L_Welcome(ans)
    \/ \E ans \in ModalAnswers, fill \in Outcomes : L_Options(ans, fill)
    \/ \E ans \in ModalAnswers, fill \in Outcomes : L_Password(ans, fill)
    \/ \E url \in VerifyUrls, ans \in {"raises", "no_header", "btn", "no_btn"} : L_Verify(url, ans)
    \/ \E out \in Outcomes : C_Persist(out)
    \/ \E nav \in {"raises", "none", "link"}, heading \in {"raises", "none", "heading"} :
          N_Navigate(nav, heading)
    \/ \E ans \in {"ok", "none", "raises"} : K_Page(ans)
    \/ \E click \in {"registers", "no_effect", "raises"}, verify \in {"ok", "none", "raises"} :
          K_Offer(click, verify)
    \/ \E click \in Outcomes : K_More(click)
    \/ K_Done
    \/ \E out \in CloseOutcomes : Closing(out)
    \/ Return
    \/ \E u \in Users, cfg \in RunConfigs, seed \in HashSeeds, launch \in LaunchOutcomes :
          StartVerify(u, cfg, seed, launch)
    \/ \E ans \in HeaderAnswers : D_Header(ans)
    \/ \E ans \in WelcomeAnswers : D_Welcome(ans)
    \/ \E ans \in ModalAnswers, fill \in Outcomes : D_Options(ans, fill)
    \/ \E ans \in ModalAnswers, fill \in Outcomes : D_Password(ans, fill)
    \/ \E url \in {"login_url", "other"}, out \in Outcomes : D_Check(url, out)
    \/ \E out \in CloseOutcomes : D_Closing(out)
    \/ /\ pc = "idle"
       /\ \E launch \in LaunchOutcomes, url \in DiscoveryUrls, title \in RunTitles,
             href \in RunHrefs :
             StartAnalyze(launch, url, title, href)
    \/ \E goto \in Outcomes, ans \in HeaderAnswers : A_Page(goto, ans)
    \/ \E out \in CloseOutcomes : A_Closing(out)

\* engine calls (clip_coupons, verify_login, analyze_store), one at a time
SpecRun == Init /\ [][NextRun]_vars

\* the cleanup task running beside verify_login calls
NextEngine ==
    \/ \E u \in Users, cfg \in RunConfigs, seed \in HashSeeds, launch \in LaunchOutcomes :
          StartVerify(u, cfg, seed, launch)
    \/ \E ans \in HeaderAnswers : D_Header(ans)
    \/ \E ans \in WelcomeAnswers : D_Welcome(ans)
    \/ \E ans \in ModalAnswers, fill \in Outcomes : D_Options(ans, fill)
    \/ \E ans \in ModalAnswers, fill \in Outcomes : D_Password(ans, fill)
    \/ \E url \in {"login_url", "other"}, out \in Outcomes : D_Check(url, out)
    \/ \E out \in CloseOutcomes : D_Closing(out)
    \/ Return
    \/ \E m \in MaxAgeChoices : CleanupExpiredSessions(m)
    \/ \E u \in Users, s \in RunStores : LoadSession(u, s)
    \/ Tick

SpecEngine == Init /\ [][NextEngine]_vars

----------------------------------------------------------------------------
(* cleanup_sessions_task *)

\* asyncio.sleep(24 * 60 * 60) and asyncio.sleep(60 * 60), in hours
CLEANUP_INTERVAL_HOURS == 24
CLEANUP_RETRY_HOURS == 1

\* the task waits a day whatever the cycle did
SleepHours_always_day(raised) == CLEANUP_INTERVAL_HOURS
\* lines 19 and 24
SleepHours(raised) ==
    IF raised THEN CLEANUP_RETRY_HOURS ELSE CLEANUP_INTERVAL_HOURS

\* line 10: the SessionManager is built, before the loop
T_Start(construct) ==
    /\ pc = "idle"
    /\ run' = [op |-> "cleanup_task", user |-> 0, store |-> 0, layout |-> <<>>,
               dup |-> FALSE]
    /\ result' = [kind |-> "cleanup_task", raised |-> construct = "raises"]
    /\ pc' = IF construct = "raises" THEN "done" ELSE "t_cycle"
    /\ DidNothing
    /\ UNCHANGED <<cacheVars, session_loaded, wait_tries, retry_count, current_url, loopVars>>

\* lines 13-16, 21-22: one cycle; an exception reaches the handler before
\* the cleanup has run or after it
T_Cycle(out, ran) ==
    LET r == cleanup_expired_sessions(FS, SESSION_TTL_DAYS, now)
    IN  /\ pc = "t_cycle"
        /\ out = "ok" => ran
        /\ IF ran THEN Apply(r) ELSE UNCHANGED <<dirs, files, baks>>
        /\ last' = [op |-> "cleanup", user |-> 0, store |-> 0,
                    arg |-> PyInt(SESSION_TTL_DAYS),
                    ret |-> IF ran THEN PyInt(r.ret) ELSE None, fault |-> out]
        /\ pc' = IF out = "ok" THEN "t_sleep" ELSE "t_sleep_error"
        /\ DidNothing
        /\ UNCHANGED <<now, run, session_loaded, wait_tries, retry_count, current_url, loopVars,
                       result>>

\* lines 19 and 24: the wait is over, the loop goes round
T_Sleep ==
    /\ pc \in {"t_sleep", "t_sleep_error"}
    /\ last' = [op |-> "sleep", user |-> 0, store |-> 0,
                arg |-> PyInt(SleepHours(pc = "t_sleep_error")), ret |-> None,
                fault |-> "ok"]
    /\ pc' = "t_cycle"
    /\ DidNothing
    /\ UNCHANGED <<now, dirs, files, baks, run, session_loaded, wait_tries,
                   retry_count, current_url, loopVars, result>>

\* the task beside the sessions the engine saves and the passing of time
NextTask ==
    \/ \E construct \in Outcomes : T_Start(construct)
    \/ \E out \in Outcomes, ran \in BOOLEAN : T_Cycle(out, ran)
    \/ T_Sleep
    \/ Return
    \/ \E u \in Users, s \in StoreIds, d \in SessionStates, out \in WriteOutcomes :
          SaveSession(u, s, d, out)
    \/ Tick

\* the event loop resumes the task when its await is over
SpecTask ==
    /\ Init /\ [][NextTask]_vars
    /\ WF_vars(\E out \in Outcomes, ran \in BOOLEAN : T_Cycle(out, ran))
    /\ WF_vars(T_Sleep)

\* analyze_store on every generated page
NextAnalyze ==
    \/ /\ pc = "idle"
       /\ \E launch \in LaunchOutcomes, url \in DiscoveryUrls, title \in Titles, href \in Hrefs :
             StartAnalyze(launch, url, title, href)
    \/ \E goto \in Outcomes, ans \in HeaderAnswers : A_Page(goto, ans)
    \/ \E out \in CloseOutcomes : A_Closing(out)
    \/ Return

SpecAnalyze == Init /\ [][NextAnalyze]_vars

----------------------------------------------------------------------------
(* The store configurations the API layer hands to the engine *)

\* listings of the clip runs that follow a discovery
DiscoveryLayouts == { << <<"U">>, <<"U">> >>, << <<"C">> >> }

\* discover_store and the clip endpoints, one call at a time
NextDiscovery ==
    \/ \E u \in Users, b \in BaseUrls, seed \in HashSeeds, launch \in LaunchOutcomes :
          StartVerify(u, DiscoveredConfig(b), seed, launch)
    \/ \E ans \in HeaderAnswers : D_Header(ans)
    \/ \E ans \in WelcomeAnswers : D_Welcome(ans)
    \/ \E ans \in ModalAnswers, fill \in Outcomes : D_Options(ans, fill)
    \/ \E ans \in ModalAnswers, fill \in Outcomes : D_Password(ans, fill)
    \/ \E url \in {"login_url", "other"}, out \in Outcomes : D_Check(url, out)
    \/ \E out \in CloseOutcomes : D_Closing(out)
    \/ /\ pc = "idle"
       /\ \E u \in Users, b \in BaseUrls, seed \in HashSeeds, layout \in DiscoveryLayouts,
             launch \in LaunchOutcomes, out \in Outcomes :
             StartClip(u, StoredConfig(b), seed, layout, FALSE, launch, out)
    \/ \E ans \in HeaderAnswers, wait \in Outcomes : C_Verify(ans, wait)
    \/ \E ans \in HeaderAnswers, wait \in Outcomes : L_Header(ans, wait)
    \/ \E ans \in WelcomeAnswers : L_Welcome(ans)
    \/ \E ans \in ModalAnswers, fill \in Outcomes : L_Options(ans, fill)
    \/ \E ans \in ModalAnswers, fill \in Outcomes : L_Password(ans, fill)
    \/ \E url \in VerifyUrls, ans \in {"raises", "no_header", "btn", "no_btn"} : L_Verify(url, ans)
    \/ \E out \in Outcomes : C_Persist(out)
    \/ \E nav \in {"raises", "none", "link"}, heading \in {"raises", "none", "heading"} :
          N_Navigate(nav, heading)
    \/ \E ans \in {"ok", "none", "raises"} : K_Page(ans)
    \/ \E click \in {"registers", "no_effect", "raises"}, verify \in {"ok", "none", "raises"} :
          K_Offer(click, verify)
    \/ \E click \in Outcomes : K_More(click)
    \/ K_Done
    \/ \E out \in CloseOutcomes : Closing(out)
    \/ Return

SpecDiscovery == Init /\ [][NextDiscovery]_vars

\* the same calls while time passes
NextDiscoveryAged ==
    \/ NextDiscovery
    \/ Tick

SpecDiscoveryAged == Init /\ [][NextDiscoveryAged]_vars

\* the same calls on an event loop that keeps running the call in progress
SpecDiscoveryLive == SpecDiscovery /\ WF_vars(NextDiscovery)

----------------------------------------------------------------------------
(* Properties of the session cache *)

LastKey == <<last.user, last.store>>
FSNext == [dirs |-> dirs', files |-> files', baks |-> baks']

\* the record of key k is parseable and within the TTL at time t
ValidRecord(f, t) == f.kind = "json" /\ t - CreatedAt(f.doc) <= SESSION_TTL_DAYS

C3_RotateKeepsPrevious ==
    [][(/\ last'.op = "rotate"
        /\ last'.fault \in {"open_fails", "dump_fails"}
        /\ ValidRecord(files[<<last'.user, last'.store>>], now))
       => (/\ last'.ret = PyBool(FALSE)
           /\ load_session(FSNext, last'.user, last'.store, now').ret
                 = PyDict(files[<<last'.user, last'.store>>].doc))]_vars

\* the age of a record: the time since it was written
Age(f, t) == t - f.written

\* C4: cleanup_expired_sessions(max_age_days) removes exactly the records
\* older than max_age_days, whoever wrote them, leaves the others as they
\* are and returns the number of records it removed
C4_CleanupExact ==
    [][(last'.op = "cleanup" /\ now' = now /\ UNCHANGED runVars)
       => LET m == last'.arg.n
              old == {k \in Keys : files[k].kind = "json" /\ Age(files[k], now) > m}
          IN  /\ \A k \in Keys : files'[k] = IF k \in old THEN NoFile ELSE files[k]
              /\ last'.ret = PyInt(Cardinality(old))]_vars

\* C5: cleanup_expired_sessions removes a user directory if and only if the
\* pass left it without a session record
C5_PartitionRemovedIffEmpty ==
    [][(last'.op = "cleanup" /\ now' = now /\ UNCHANGED runVars)
       => \A u \in dirs :
             (u \notin dirs') <=> (\A s \in StoreIds : files'[<<u, s>>] = NoFile)]_vars

----------------------------------------------------------------------------
(* Properties of the login flow *)

LoginSteps == {"fill_email", "click_password_option", "fill_password", "click_submit"}

\* C6: when the welcome modal never shows, the login flow of a clip run
\* passes on to the login options without a click, has filled the email,
\* chosen the password option, filled the password and submitted when it
\* verifies, and succeeds as soon as verification sees the user signed in
C6_WelcomeModalOptional ==
    /\ [][(pc = "l_welcome" /\ events' \cap {"saw_welcome_modal", "exception"} = {})
           => (pc' = "l_options" /\ act' = NoAct)]_vars
    /\ []((pc \in {"l_verify", "c_persist"} /\ "saw_welcome_modal" \notin events)
           => (LoginSteps \subseteq events /\ "click_welcome_sign_in" \notin events))
    /\ [][(pc = "l_verify" /\ "saw_signed_in" \in events')
           => (pc' = "c_persist" /\ "login_ok" \in events')]_vars
    /\ [](pc = "c_persist" => "saw_signed_in" \in events)

\* a login without welcome modal has succeeded
C6_Witness ==
    /\ pc = "c_persist"
    /\ "saw_welcome_modal" \notin events
    /\ LoginSteps \cup {"login_ok"} \subseteq events

\* C7: as long as the password modal has not appeared, no password is
\* filled and nothing is submitted, the login flow does not go on to
\* verification, and the call that ran it ends in failure (clip_coupons
\* with a login error, verify_login with False)
C7_NoPasswordModal ==
    "saw_password_modal" \notin events =>
        /\ events \cap {"fill_password", "click_submit", "login_ok"} = {}
        /\ pc \notin {"l_verify", "c_persist", "d_check"}
        /\ (run.op = "verify_login" /\ pc = "done") => result.ret = FALSE
        /\ (run.op = "clip" /\ pc \in {"closing", "done"} /\ ~session_loaded)
              => (~result.success /\ result.error # "none")

\* the flow of a clip run reached the password step, the modal did not
\* appear and the run failed
C7_Witness ==
    /\ run.op = "clip"
    /\ pc = "closing"
    /\ "click_password_option" \in events
    /\ "saw_password_modal" \notin events
    /\ result.error = "Failed to login"

----------------------------------------------------------------------------
(* Properties of the clip loop *)

\* the offers the run had to click, and those of them that the site shows
\* verified: the re-query made after the click answered, and the offer of
\* the page that carries the title shows clipped
WasUnclipped(p, i) == run.layout[p][i] = "U"
Verified(p, i) ==
    LET offers == site.pages[p]
    IN  /\ WasUnclipped(p, i)
        /\ offers[i].id \notin requery_failed
        /\ offers[FirstWithTitle(offers, offers[i].title)].clipped
Positions ==
    {pi \in (1..Len(site.pages)) \X (1..4) : pi[2] <= Len(site.pages[pi[1]])}
VerifiedIds == {site.pages[pi[1]][pi[2]].id : pi \in {qi \in Positions : Verified(qi[1], qi[2])}}
ResultIds == {result.clipped_coupons[i].id : i \in 1..Len(result.clipped_coupons)}

\* the listing of C8: every page holds offers, every page query answers and
\* every load-more click works
PagedListing ==
    /\ run.op = "clip"
    /\ \A p \in 1..Len(run.layout) : run.layout[p] # <<>>
    /\ misses = 0
    /\ "page_query_failed" \notin events

\* C8: over N pages with a load-more affordance on all but the last the
\* loop queries page 1, 2, .. N in this order, has clicked load-more N-1
\* times when it ends, and returns the verified offers of every page, in the
\* order of the listing
C8_Pagination ==
    /\ [][(act'.e = "query_page" /\ PagedListing') => act'.id = more_clicks' + 1]_vars
    /\ []((pc \in {"closing", "done"} /\ "query_page" \in events /\ PagedListing)
           => /\ more_clicks = Len(run.layout) - 1
              /\ site.cur = Len(run.layout)
              /\ ResultIds = VerifiedIds
              /\ \A i, j \in 1..Len(result.clipped_coupons) :
                    i < j => result.clipped_coupons[i].id < result.clipped_coupons[j].id)

\* a run over three pages has returned offers of the first and the last
C8_Witness ==
    /\ pc = "done"
    /\ PagedListing
    /\ Len(run.layout) = 3
    /\ more_clicks = 2
    /\ {11, 31} \subseteq ResultIds

\* C9: a clip click is only made on an offer that the site shows with a
\* clip button and not clipped
C9_NeverClickClipped ==
    [][(pc = "k_offer" /\ act'.e = "click_clip")
       => LET o == site.pages[site.cur][idx]
          IN  o.id = act'.id /\ o.btn /\ ~o.clipped]_vars

\* after a load-more step an offer is clicked on a listing that holds a
\* clipped offer
C9_Witness ==
    /\ act.e = "click_clip"
    /\ more_clicks > 0
    /\ \E p \in 1..Len(run.layout) : \E i \in 1..Len(run.layout[p]) :
          run.layout[p][i] = "C"

AllUnclipped ==
    \A p \in 1..Len(run.layout) : \A i \in 1..Len(run.layout[p]) : run.layout[p][i] = "U"

\* C10: a clip run that reached the clip loop over a listing of unclipped
\* offers returns exactly the verified offers in listing order, success
\* iff there is one, and no top-level error
C10_ClipResult ==
    (/\ run.op = "clip" /\ pc = "done" /\ ~result.raised
     /\ events \cap {"query_page", "page_query_failed"} # {}
     /\ AllUnclipped)
    => /\ ResultIds = VerifiedIds
       /\ \A i, j \in 1..Len(result.clipped_coupons) :
             i < j => result.clipped_coupons[i].id < result.clipped_coupons[j].id
       /\ result.success = (Len(result.clipped_coupons) > 0)
       /\ result.error = "none"

----------------------------------------------------------------------------
(* Properties of the result of clip_coupons *)

\* C11: the result of clip_coupons, from its initialisation to its return,
\* has success true exactly when its list of clipped offers is not empty
C11_SuccessIffClipped ==
    result.kind = "clip" => (result.success <=> Len(result.clipped_coupons) > 0)

\* a run that reached the clip loop has returned offers with success
C11_Witness ==
    /\ run.op = "clip"
    /\ pc = "done"
    /\ ~result.raised
    /\ "query_page" \in events
    /\ result.success
    /\ Len(result.clipped_coupons) > 0

\* the login flow of the run returned False; the coupon navigation did
LoginFailedInRun ==
    pc \in {"closing", "done"} /\ ~session_loaded /\ "login_ok" \notin events
NavigationFailedInRun == "nav_failed" \in events

\* C12: the result of clip_coupons carries a top-level error only if the
\* login or the coupon navigation of the run failed
C12_ErrorOnlyStructural ==
    (result.kind = "clip" /\ result.error # "none")
    => (LoginFailedInRun \/ NavigationFailedInRun)

----------------------------------------------------------------------------
(* Properties of the engine's public operations *)

\* C13: a call of analyze_store, verify_login or clip_coupons that has
\* ended has returned a value and has not raised
C13_NeverRaises ==
    pc = "done" => ~result.raised

\* C14: the credentials handed to the engine appear in no log message and
\* in no file of the session cache
C14_CredentialsNotLeaked ==
    /\ "logged_credentials" \notin events
    /\ \A k \in Keys : files[k].kind = "json" => "credentials" \notin DOMAIN files[k].doc

LoginFlowStates == {"l_header", "l_welcome", "l_options", "l_password", "l_verify"}

\* C15: in a clip run the login flow runs exactly when no session is cached
\* for the key or the cached one fails the check; a cached session that
\* passes the check is reused as it was cached, and no login step is made
C15_LoginIffNoValidSession ==
    /\ [](run.op = "clip" =>
            /\ pc \in LoginFlowStates =>
                  \/ "session_file_exists" \notin events
                  \/ "session_check_failed" \in events
            /\ pc = "n_nav" /\ "login_ok" \notin events =>
                  /\ "session_valid" \in events
                  /\ events \cap LoginSteps = {})
    /\ [][run'.op = "clip" /\ pc' = "c_verify" => files' = files]_vars

NavEvents == {"saw_coupon_link", "saw_coupon_heading", "nav_failed"}
ClipLoopEvents == {"query_page", "page_query_failed", "click_clip", "click_load_more"}

\* C16: a clip run takes its steps in the order session check, login if
\* needed, coupon navigation, clip loop; a run whose login failed returns
\* the login error with an empty list and success false, and has neither
\* navigated to the coupons nor clicked a clip button
C16_OrderAndLoginFailure ==
    run.op = "clip" =>
      /\ events \cap LoginSteps # {} => "session_valid" \notin events
      /\ events \cap NavEvents # {} => ("session_valid" \in events \/ "login_ok" \in events)
      /\ events \cap ClipLoopEvents # {} => "saw_coupon_heading" \in events
      /\ (pc = "done" /\ LoginFailedInRun) =>
            /\ ~result.raised
            /\ result.error = "Failed to login"
            /\ result.clipped_coupons = <<>>
            /\ ~result.success
            /\ events \cap (NavEvents \cup ClipLoopEvents) = {}

\* C17: the coupon navigation clicks the link it located and succeeds only
\* when the coupons heading is then found; when the link or the heading is
\* missing the run carries the navigation error and clicks no clip button
C17_NavigationClicksLink ==
    run.op = "clip" =>
      /\ "saw_coupon_link" \in events => "click_coupon_nav" \in events
      /\ pc \in {"k_page", "k_offer", "k_more", "k_done"} => "saw_coupon_heading" \in events
      /\ "nav_failed" \in events =>
            /\ events \cap ClipLoopEvents = {}
            /\ pc = "closing" => result.error = "Failed to navigate to coupons section"

\* C18: verify_login answers true only after the session was written under
\* the key of the call, and on every failure answers false without raising
\* and without having written a session
C18_VerifyLoginContract ==
    (run.op = "verify_login" /\ pc = "done") =>
      /\ ~result.raised
      /\ result.ret =>
            /\ "write_session" \in events
            /\ files[RunKey] = JsonFile(AuthContextState, now)
      /\ ~result.ret => "write_session" \notin events

\* C19: a login is reported successful, by the login flow of a clip run or
\* by verify_login, only after the credentials were submitted and the header
\* was then seen without its sign-in button
C19_SuccessOnlyWhenSignedIn ==
    ("login_ok" \in events \/ (result.kind = "verify_login" /\ result.ret)) =>
      /\ "click_submit" \in events
      /\ "saw_signed_in" \in events

\* C20: once verify_login has persisted the session of a discovered store,
\* a clip run for the same user and store finds a session file under its
\* key: both compute the same store identity for the store
C20_ClipFindsDiscoveredSession ==
    \A b \in BaseUrls :
       (/\ run.op = "clip"
        /\ run.config = StoredConfig(b)
        /\ \E seed \in HashSeeds :
              files[<<run.user, StoreIdentity(DiscoveredConfig(b), seed)>>].kind # "none")
       => "session_file_exists" \in events

----------------------------------------------------------------------------
(* Properties of the discovery *)

Analyzed == result.kind = "analyze_store" /\ result.ret = "config"

\* no blank at either end and no two blanks in a row
NormalBlanks(s) ==
    /\ s # <<>> => (s[1] # " " /\ s[Len(s)] # " ")
    /\ \A i \in 1..(Len(s) - 1) : ~(s[i] = " " /\ s[i + 1] = " ")

\* the name a title body spells
SpelledName(body) ==
    IF body = <<"Acme">> THEN <<"Acme">> ELSE <<"Acme", " ", "Grocery">>

\* C21: the store name is the page title without its known suffix and with
\* its whitespace normalised ("Acme Grocery | Official Site" gives "Acme
\* Grocery"), and a relative sign-in href is resolved against the origin
\* ("/login" gives origin + "/login")
C21_NameAndLoginUrl ==
    Analyzed =>
      /\ NormalBlanks(result.config.name)
      /\ \A i \in DOMAIN common_suffixes, body \in TitleBodies \ {<<>>},
            pre \in TitlePads, mid \in TitlePads :
            site.title = Text(pre \o body \o mid \o common_suffixes[i])
              => result.config.name = SpelledName(body)
      /\ \A body \in TitleBodies \ {<<>>}, pre \in TitlePads, post \in TitlePads :
            site.title = Text(pre \o body \o post)
              => result.config.name = SpelledName(body)
      /\ site.href \in {Text(<<"/", "login">>), Text(<<"login">>)}
            => result.config.login_url = site.url \o <<"/", "login">>
      /\ site.href = Text(<<"//", "cdn.acme.com", "/", "login">>)
            => result.config.login_url = <<site.url[1], "cdn.acme.com", "/", "login">>

C21_Witness ==
    /\ Analyzed
    /\ site.title = Text(<<"Acme", " ", "Grocery", " ", "|", " ", "Official Site">>)
    /\ site.href = Text(<<"/", "login">>)
    /\ result.config.name = <<"Acme", " ", "Grocery">>
    /\ result.config.login_url = <<"https://", "www.kroger.com", "/", "login">>

\* C22: analyze_store answers with a StoreConfig whenever the header was
\* found, whatever the title and the href of the sign-in button are
C22_ConfigWheneverHeader ==
    (run.op = "analyze_store" /\ "saw_header" \in events) => result.ret = "config"

----------------------------------------------------------------------------
(* Properties of the cleanup task *)

TaskLoop == {"t_cycle", "t_sleep", "t_sleep_error"}
InTask == run.op = "cleanup_task" /\ pc \in TaskLoop

\* C23: the cleanup loop has no exit and lets no exception out: a cycle
\* that completed is followed by a wait of 24 hours, one that raised by a
\* wait of 1 hour, and every wait by the next cycle
C23_CleanupLoopForever ==
    /\ [](InTask => ~result.raised)
    /\ [][InTask => pc' \in TaskLoop]_vars
    /\ [][(pc = "t_cycle" /\ pc' # pc) =>
             pc' = IF last'.fault = "ok" THEN "t_sleep" ELSE "t_sleep_error"]_vars
    /\ [][(pc = "t_sleep" /\ pc' # pc) =>
             (pc' = "t_cycle" /\ last'.arg = PyInt(24))]_vars
    /\ [][(pc = "t_sleep_error" /\ pc' # pc) =>
             (pc' = "t_cycle" /\ last'.arg = PyInt(1))]_vars
    /\ (pc \in {"t_sleep", "t_sleep_error"}) ~> (pc = "t_cycle")
    /\ (pc = "t_cycle") ~> (pc \in {"t_sleep", "t_sleep_error"})

C23_Witness ==
    /\ InTask /\ pc = "t_cycle"
    /\ last.op = "sleep" /\ last.arg = PyInt(1)
    /\ \E k \in Keys : files[k].kind # "none"

----------------------------------------------------------------------------
(* Properties of the browser resources *)

\* the browser is closed by browser.close() or, under async with
\* async_playwright(), torn down with the driver
BrowserReleased == "closed_browser" \in events \/ "playwright_stopped" \in events

\* C24: when clip_coupons, analyze_store or verify_login is over, on every
\* exit path, the browser and the context the call opened have been closed
C24_ResourcesClosed ==
    (pc = "done" /\ run.op \in {"clip", "analyze_store", "verify_login"}) =>
      /\ "opened_browser" \in events => BrowserReleased
      /\ "opened_context" \in events => ("closed_context" \in events \/ BrowserReleased)

----------------------------------------------------------------------------
(* Termination *)

\* C25: every clip run comes to its end, whatever the pages answer
C25_ClipTerminates == (run.op = "clip") ~> (pc = "done")

\* C26: the store identity of a configuration without id depends on its
\* base_url alone: every process computes the same one
C26_FallbackIdDeterministic ==
    (run.op \in {"verify_login", "clip"} /\ run.config.id = 0) =>
       \A seed \in HashSeeds : run.store = StoreIdentity(run.config, seed)

\* C27: every session file of the cache, whoever wrote it, holds the
\* metadata block with created_at, user_id and store_id
C27_EveryFileHasMetadata ==
    \A k \in Keys :
       files[k].kind = "json" =>
          /\ "_metadata" \in DOMAIN files[k].doc
          /\ DOMAIN files[k].doc["_metadata"] = {"created_at", "user_id", "store_id"}

----------------------------------------------------------------------------
(* Rotation *)

----------------------------------------------------------------------------
(* Expiry in the clip run *)

\* C29: a clip run that finds only a record older than the TTL of 7 days
\* treats the session as absent: it goes to the login flow without taking
\* the record for a loaded session
C29_ClipIgnoresExpired ==
    [][(/\ pc = "idle" /\ run'.op = "clip" /\ pc' \notin {"done", "closing"}
        /\ files[<<run'.user, run'.store>>].kind = "json"
        /\ Age(files[<<run'.user, run'.store>>], now) > SESSION_TTL_DAYS)
       => (~session_loaded' /\ pc' = "l_header")]_vars

----------------------------------------------------------------------------
(* Verification after the submit *)

\* C30: the verification after the submit makes at most 5 attempts; an
\* attempt that reads a URL with /signin, /login or /account/sign-in is never
\* accepted; when none of the 5 attempts is accepted the login flow returns
\* failure
C30_VerificationBounded ==
    /\ [](pc = "l_verify" => retry_count + 1 \in 1..5)
    /\ [][(pc = "l_verify" /\ current_url' \in {"/signin", "/login", "/account/sign-in"})
           => (pc' # "c_persist" /\ "login_ok" \notin events')]_vars
    /\ [][(pc = "l_verify" /\ retry_count + 1 = 5 /\ pc' # "c_persist")
           => (pc' = "closing" /\ result'.error = "Failed to login")]_vars
    /\ []((run.op = "clip" /\ pc = "closing" /\ current_url # "none"
           /\ "login_ok" \notin events)
          => (result.error = "Failed to login" /\ ~result.success))

\* five attempts were made and none accepted, the last one on a login page
C30_Witness ==
    /\ run.op = "clip" /\ pc = "closing"
    /\ current_url = "/login"
    /\ "click_submit" \in events /\ "exception" \notin events
    /\ result.error = "Failed to login"

----------------------------------------------------------------------------
(* Fatal absences in the login flow *)

OptionsDone == {"fill_email", "click_password_option"} \subseteq events

\* C31: in the login flow of the clip engine and of verify_login, a login
\* options step that does not find the modal, its identifier input and its
\* password affordance ends the flow with failure; the password step is
\* never reached
C31_LoginModalRequired ==
    [][(pc \in {"l_options", "d_options"} /\ pc' # pc /\ ~OptionsDone')
       => (/\ pc' \in {"closing", "d_closing"}
           /\ "login_ok" \notin events'
           /\ run.op = "clip" => result'.error = "Failed to login")]_vars

\* C32: a login flow whose first step ends without the header sign-in
\* affordance found fails there: it returns failure without a click or fill
C32_HeaderRequired ==
    [][(pc \in {"l_header", "d_header"} /\ pc' # pc
        /\ "click_header_sign_in" \notin events')
       => (/\ pc' \in {"closing", "d_closing"}
           /\ act' = NoAct
           /\ events' \cap (LoginSteps \cup {"click_welcome_sign_in"}) = {})]_vars

----------------------------------------------------------------------------
(* The element wait *)

WaitStates == {"c_verify", "l_header"}

\* C33: the element wait makes at most 3 queries, returns with the first
\* query that finds something, returns nothing after the last one otherwise,
\* and never raises: the step that ends a wait raises no exception
C33_WaitNeverRaises ==
    /\ [](pc \in WaitStates => wait_tries + 1 \in 1..3)
    /\ [][(pc \in WaitStates /\ wait_tries' = wait_tries + 1)
           => (pc' = pc /\ events' = events)]_vars
    /\ [][(pc \in WaitStates /\ pc' # pc)
           => (wait_tries' = 0 /\ "exception" \notin events' \ events)]_vars

----------------------------------------------------------------------------
(* The click helper *)

\* C34: _wait_and_click returns true exactly when the click was performed
\* without error; a click that raises is reported as false and is not
\* propagated: the step neither records an exception nor ends the call
C34_ClickReportsOutcome ==
    /\ [](act.e \in ClickNames => (act.ok <=> act.click \notin {"none", "raises"}))
    /\ [][(act'.e \in ClickNames /\ act'.click \in {"none", "raises"})
           => (/\ "exception" \notin events' \ events
               /\ pc' \notin {"closing", "d_closing", "a_closing", "done"}
               /\ result' = result)]_vars

\* the load-more click of a clip run raised, was reported as false, and the
\* loop went on
C34_Witness ==
    /\ act.e = "click_load_more" /\ act.click = "raises" /\ ~act.ok
    /\ pc = "k_page"
    /\ "exception" \notin events

----------------------------------------------------------------------------
(* Files that cannot be parsed *)

\* C35: a cache file that cannot be read or parsed raises nothing:
\* load_session returns None for it and leaves it, cleanup_expired_sessions
\* leaves it in place, returns its count, and still removes every expired
\* record and every directory left empty
C35_CorruptFileTolerated ==
    /\ [][(last'.op = "load" /\ files[<<last'.user, last'.store>>].kind = "corrupt")
           => (last'.ret = None /\ files' = files /\ dirs' = dirs)]_vars
    /\ [][last'.op = "cleanup" =>
             /\ last'.ret.kind = "int"
             /\ \A k \in Keys :
                   /\ files[k].kind = "corrupt" => files'[k] = files[k]
                   /\ (files[k].kind = "json"
                       /\ now - CreatedAt(files[k].doc) > last'.arg.n)
                         => files'[k] = NoFile
             /\ \A u \in dirs : ~DirHasEntry(files', baks', u) => u \notin dirs']_vars

\* a pass removed an expired record beside a file it could not parse
C35_Witness ==
    /\ last.op = "cleanup" /\ last.ret.n >= 1
    /\ \E k \in Keys : files[k].kind = "corrupt"

----------------------------------------------------------------------------
(* Offers of the clip loop *)

\* C36: the step of an offer appends it to the clipped list only if the
\* listing shows that same offer clipped after its click, whatever titles
\* the offers of the listing carry
C36_AppendOnlyVerifiedOffer ==
    [][(pc = "k_offer" /\ clipped_coupons' # clipped_coupons)
       => LET o == site'.pages[site'.cur][idx]
          IN  /\ clipped_coupons' = Append(clipped_coupons, OfferFacts(o))
              /\ act'.id = o.id
              /\ o.clipped]_vars

\* C37: the failure of one offer (its click fails, its verification fails,
\* its verification query returns nothing or raises) never escalates: the
\* loop goes on to the next offer of the page, after the last one to the
\* load-more step, and a load-more button found is clicked and the next
\* query made
C37_OfferFailureContained ==
    /\ [][pc = "k_offer" =>
             /\ "exception" \notin events'
             /\ result' = result
             /\ IF idx < Len(page_result.offers)
                THEN pc' = "k_offer" /\ idx' = idx + 1
                ELSE pc' = "k_more"]_vars
    /\ [][(pc = "k_more" /\ page_result.more)
           => (pc' = "k_page" /\ act'.e = "click_load_more")]_vars

\* the verification query of the first offer failed; the second offer of
\* the page was clipped and the second page is being processed
C37_Witness ==
    /\ 11 \in requery_failed
    /\ \E i \in 1..Len(clipped_coupons) : clipped_coupons[i].id = 12
    /\ pc = "k_offer" /\ site.cur = 2 /\ more_clicks = 1

----------------------------------------------------------------------------
(* Cleanup beside a run *)

\* C38: a cleanup pass with the threshold of 7 days that runs at any point
\* of a clip or discovery run leaves the run as it is and leaves in place
\* the session record the run has persisted less than 7 days before
C38_CleanupSparesFreshRecord ==
    [][(/\ last'.op = "cleanup" /\ last'.arg.n = SESSION_TTL_DAYS
        /\ now' = now /\ UNCHANGED runVars
        /\ run.op \in {"clip", "verify_login"}
        /\ "write_session" \in events
        /\ files[RunKey].kind = "json"
        /\ Age(files[RunKey], now) < SESSION_TTL_DAYS)
       => files'[RunKey] = files[RunKey]]_vars

----------------------------------------------------------------------------
(* Writes of the clip run *)

\* C39: a step of a clip run changes a session record only when the login
\* flow of that run has succeeded; a run whose login fails and a run that
\* loads and checks a cached session leave the record as it was
C39_WriteOnlyAfterLogin ==
    [][(run'.op = "clip" /\ files' # files) => "login_ok" \in events]_vars

\* C40: a result that clip_coupons returns with success true carries no
\* top-level error, whatever happened while the context was closed
C40_SuccessWithoutError ==
    (result.kind = "clip" /\ pc = "done" /\ result.success) => result.error = "none"

=============================================================================
